---- MODULE Spec2Model ----
(***************************************************************************)
(* A model of cyberpunk-radio-extractor:                                   *)
(*   - the extraction orchestrator, main() of __main__.py together with    *)
(*     extract_track() of audio.py, as a state machine over the output     *)
(*     directory, the archive and the collaborators' calls;                *)
(*   - the centre-padding geometry of AlbumArtHelper.expand_to_output_size *)
(*     of album_art.py;                                                    *)
(*   - the requests an AlbumArtHelper serves: bounds lookup, crop, pad,    *)
(*     compositing against the album art base, PNG bytes.                  *)
(* Spec is the orchestrator, SpecPad the padding geometry, SpecArt the     *)
(* album art helper.                                                       *)
(***************************************************************************)
EXTENDS Integers, Sequences, FiniteSets, TLC

VARIABLES
    pc,               \* position of main() / extract_track()
    error,            \* the exception that ended the run, "" while none
    run,              \* number of runs of main() started so far
    jingles,          \* main's --jingles flag of the current run
    install_dir,      \* TRUE when --install-dir was supplied to the current run
    install_dir_p,    \* TRUE when the local install_dir_p is bound
    album_art_data,   \* main's station -> PNG bytes mapping, a function
    art_built,        \* TRUE once get_album_art has returned in this run
    archive_entries,  \* wem names audio_2_soundbanks.archive has an entry for
    files,            \* the output directory: destination -> file
    dirs,             \* station directories that exist
    mkdirs,           \* stations whose maybe_make was called in this run
    si,               \* index of the station being iterated
    phase,            \* "tracks" or "jingles": which loop of the station runs
    idx,              \* index in the station's track list / jingle list
    args,             \* arguments of the extract_track call in progress
    call,             \* what the extract_track call in progress did so far
    tmpdirs,          \* live TemporaryPathPlus directories
    stats,            \* per-run counts of the collaborators' calls
    tag_log,          \* the set_id3_metadata calls of this run, in order
    started,          \* destinations extract_track was entered for in this run
    prev,             \* how the previous run ended and what it was asked
    snapshot,         \* files as they were when the current run started
    transcoded_ok,    \* destinations some transcode_file call completed for
    img,              \* size of the image handed to expand_to_output_size
    pad_pc,           \* "input" before expand_to_output_size, then its outcome
    border,           \* the border handed to ImageOps.expand
    new_img,          \* size of the image expand_to_output_size returns
    album_art,        \* size of the album art composed from new_img
    logo_atlas,       \* the station icons atlas: its size and its fill
    helper,           \* the AlbumArtHelper: its images and its base pair
    req,              \* the request being served and the steps it took
    logo,             \* pixels of the padded logo: the zones where it is opaque
    pixels,           \* pixels of the album art composed last: zone -> colour
    session_art       \* the PNG bytes returned so far: station -> bytes

run_vars == <<pc, error, run, jingles, install_dir, install_dir_p, album_art_data,
              art_built, archive_entries, files, dirs, mkdirs, si, phase, idx, args,
              call, tmpdirs, stats, tag_log, started, prev, snapshot, transcoded_ok>>

pad_vars == <<img, pad_pc, border, new_img, album_art>>

art_vars == <<logo_atlas, helper, req, logo, pixels, session_art>>

vars == <<run_vars, pad_vars, art_vars>>

(***************************************************************************)
(* Bounds of the model.                                                    *)
(***************************************************************************)
MaxRuns == 3       \* runs of main() against the same output directory
MaxMissing == 1    \* catalog assets the archive may lack
MaxSide == 514     \* largest image width / height handed to the padding
MaxRequests == 2   \* requests made of one AlbumArtHelper

(***************************************************************************)
(* The catalog (cp2077_extractor.audio_data.radio_stations), an input of   *)
(* main: an ordered station -> tracks mapping and the stations' jingles.   *)
(* The second station has no jingle set and no album art.                  *)
(***************************************************************************)
Track(station, title, wem_name, filename_stub) ==
    [station |-> station, title |-> title, wem_name |-> wem_name,
     filename_stub |-> filename_stub]

radio_stations ==
    << [name |-> "96.1 Ritual FM",
        tracks |-> << Track("96.1 Ritual FM", "Track A", "w1", "track_a"),
                      Track("96.1 Ritual FM", "Track B", "w2", "track_b") >>],
       [name |-> "100.0 Catalog Only FM",
        tracks |-> << Track("100.0 Catalog Only FM", "Track C", "w3", "track_c") >>] >>

radio_jingle_ids == [s \in {"96.1 Ritual FM"} |-> <<"w4">>]

_station_names == {"96.1 Ritual FM", "99.9 Impulse", "89.7 Growl FM"}

\* image_size: tuple[int, int] = 512, 512
image_size == <<512, 512>>

None == <<>>

(***************************************************************************)
(* Helpers of main() and extract_track().                                  *)
(***************************************************************************)
\* dict.get(key): the value, None when the key is absent
Get(d, k) == IF k \in DOMAIN d THEN d[k] ELSE None

\* the PNG bytes AlbumArt.get_album_art stores for a station
PngBytes(station) == <<"png", station>>

\* station_dir / (track.filename_stub + ".mp3")
track_mp3_filename(station, track) ==
    [dir |-> station, prefix |-> "", stem |-> track.filename_stub, suffix |-> ".mp3"]

\* station_dir / f"jingle_{wem_name}.mp3"
jingle_mp3_filename(station, wem_name) ==
    [dir |-> station, prefix |-> "jingle_", stem |-> wem_name, suffix |-> ".mp3"]

\* Track(station, "Jingle", wem_name)
jingle_track(station, wem_name) == Track(station, "Jingle", wem_name, "Jingle")

StationIdx == 1..Len(radio_stations)

\* the tracks of station i, and its jingles (none without a jingle set)
StationTracks(i) == radio_stations[i].tracks

StationJingles(i) == Get(radio_jingle_ids, radio_stations[i].name)

TrackDests ==
    UNION {{track_mp3_filename(radio_stations[i].name, StationTracks(i)[k]) :
                k \in 1..Len(StationTracks(i))} : i \in StationIdx}

JingleDests ==
    UNION {{jingle_mp3_filename(radio_stations[i].name, StationJingles(i)[k]) :
                k \in 1..Len(StationJingles(i))} : i \in StationIdx}

AllDests == TrackDests \cup JingleDests

AllWems ==
    UNION {{StationTracks(i)[k].wem_name : k \in 1..Len(StationTracks(i))} \cup
           {StationJingles(i)[k] : k \in 1..Len(StationJingles(i))} : i \in StationIdx}

\* the destinations a run with the given --jingles flag processes
EnabledDests(j) == IF j THEN AllDests ELSE TrackDests

\* a file of the output directory: absent, partly written or complete; audio is
\* the run whose transcode wrote its audio, tag the ID3 tags the tagger wrote
NoFile == [state |-> "absent", audio |-> 0, tag |-> None]

NoArgs == [track |-> None, station |-> "", mp3_filename |-> None, album_art |-> None]

NoCall == [state |-> "none", existed |-> FALSE, tmps |-> 0, finds |-> 0,
           extracts |-> 0, writes |-> 0, transcodes |-> 0, tags |-> 0]

NoStats == [finds |-> 0, extracts |-> 0, transcodes |-> 0]

\* the cache check never finds the destination
is_file_never(f) == FALSE

\* mp3_filename.is_file()
is_file(f) == files[f].state # "absent"

\* archive.file_list.find_filename(...): TRUE when the archive has the entry
find_filename(wem_name) == wem_name \in archive_entries

\* every station is handed the art of the catalog's first station
album_art_for_first(station) == Get(album_art_data, radio_stations[1].name)

\* the album art main hands to extract_track: album_art_data.get(station)
album_art_for(station) == Get(album_art_data, station)

\* the directory is removed at the end of the block only, not when it raises
TmpCleanup_success_only(t, d, raised) == IF raised THEN t ELSE t \ {d}

\* TemporaryPathPlus.__exit__: the with block removes its directory however
\* the block is left
TmpCleanup(t, d, raised) == t \ {d}

(***************************************************************************)
(* AlbumArtHelper: the pixels of its images.  Every image of a request has *)
(* the canvas size, and its pixels are told apart by the two masks that    *)
(* select them: the frame mask (border lines and text) and the padded      *)
(* logo.  An image is a colour per zone, a mask the zones where it is set. *)
(***************************************************************************)
Zones == {"frame_logo", "frame", "logo", "rest"}

background_colour == "#0e0204"

graphic_colour == "#77ffff"

border_colour == "#913232"

\* Image.new("RGBA", image_size, colour)
solid(colour) == [z \in Zones |-> colour]

\* the two images change places
composite_pixels_swapped(image1, image2, mask) ==
    [z \in Zones |-> IF z \in mask THEN image2[z] ELSE image1[z]]

\* Image.composite(image1, image2, mask), pixel by pixel: image1 where the
\* mask is set, image2 elsewhere, in a new image
composite_pixels(image1, image2, mask) ==
    [z \in Zones |-> IF z \in mask THEN image1[z] ELSE image2[z]]

\* the pixels the border lines of get_album_art_base cover
border_lines == {"frame_logo", "frame"}

\* the pixels of a logo cropped from the atlas and padded with transparency
logo_pixels(fill) == IF fill = "opaque" THEN {"frame_logo", "logo"} ELSE {}

\* get_album_art_base(bottom_left_text_img, background): the lines are drawn
\* on the text image, which becomes the mask of the pair
get_album_art_base(bottom_left_text_img, background) ==
    LET mask == bottom_left_text_img \cup border_lines
    IN <<composite_pixels(solid(border_colour), background, mask), mask>>

\* self.image_bounds of a helper whose atlas is a: (left, top, right, bottom)
image_bounds(a) ==
    ( "96.1 Ritual FM" :> <<0, 0, 346, 332>> @@
      "99.9 Impulse" :> <<0, 332, 345, 642>> @@
      "89.7 Growl FM" :> <<0, 642, 246, 971>> @@
      "103.5 Radio PEBKAC" :> <<0, 971, 357, a.height>> @@
      "107.3 Morro Rock Radio" :> <<346, 0, 750, 196>> @@
      "89.3 Radio Vexelstrom" :> <<346, 196, 733, 328>> @@
      "91.9 Royal Blue Radio" :> <<346, 328, 713, 532>> @@
      "98.7 Body Heat Radio" :> <<346, 532, 702, 729>> @@
      "101.9 The Dirge" :> <<246, 725, 585, 912>> @@
      "88.9 Pacific Dreams" :> <<357, 907, 630, a.height - 12>> @@
      "95.2 Samizdat Radio" :> <<750, 0, a.width - 13, 298>> @@
      "106.9 30 Principales" :> <<713, 327, a.width, 593>> @@
      "107.5 Dark Star" :> <<628, 809, a.width - 25, 968>> @@
      "92.9 Night FM" :> <<628, 965, a.width - 30, a.height - 65>> )

\* AlbumArtHelper.__init__(logo_atlas, bottom_left_text_img), default colours;
\* base_builds counts the calls of get_album_art_base
AlbumArtHelper(a, bottom_left_text_img, builds) ==
    LET background == solid(background_colour)
        base == get_album_art_base(bottom_left_text_img, background)
    IN [logo_atlas |-> a,
        background |-> background,
        foreground |-> solid(graphic_colour),
        album_art_base |-> base[1],
        album_art_base_mask |-> base[2],
        image_bounds |-> image_bounds(a),
        base_builds |-> builds + 1]

\* no helper constructed yet
NoHelper ==
    [logo_atlas |-> [width |-> 0, height |-> 0, fill |-> "clear"],
     background |-> solid(""),
     foreground |-> solid(""),
     album_art_base |-> solid(""),
     album_art_base_mask |-> {},
     image_bounds |-> [st \in {} |-> <<0, 0, 0, 0>>],
     base_builds |-> 0]

\* no request made yet; the counts are the steps the current request took
NoReq == [n |-> 0, kind |-> "album_art", station |-> "", crops |-> 0, pads |-> 0,
          composites |-> 0, pngs |-> 0]

\* the 1024 x 1024 atlas filled with one opaque colour
DefaultAtlas == [width |-> 1024, height |-> 1024, fill |-> "opaque"]

ArtIdle ==
    /\ logo_atlas = DefaultAtlas
    /\ helper = NoHelper
    /\ req = NoReq
    /\ logo = {}
    /\ pixels = solid("")
    /\ session_art = [st \in {} |-> None]

(***************************************************************************)
(* Initial state: a fresh output directory, before the first run.  The     *)
(* archive lacks at most MaxMissing of the catalog's assets.               *)
(***************************************************************************)
RunInit ==
    /\ pc = "idle"
    /\ error = ""
    /\ run = 0
    /\ jingles = TRUE
    /\ install_dir = FALSE
    /\ install_dir_p = FALSE
    /\ album_art_data = [s \in {} |-> None]
    /\ art_built = FALSE
    /\ archive_entries \in {AllWems \ m : m \in {x \in SUBSET AllWems : Cardinality(x) <= MaxMissing}}
    /\ files = [d \in AllDests |-> NoFile]
    /\ dirs = {}
    /\ mkdirs = {}
    /\ si = 0
    /\ phase = "tracks"
    /\ idx = 0
    /\ args = NoArgs
    /\ call = NoCall
    /\ tmpdirs = {}
    /\ stats = NoStats
    /\ tag_log = <<>>
    /\ started = <<>>
    /\ prev = [done |-> FALSE, jingles |-> FALSE]
    /\ snapshot = [d \in AllDests |-> NoFile]
    /\ transcoded_ok = {}

PadIdle ==
    /\ img = [width |-> 0, height |-> 0]
    /\ pad_pc = "input"
    /\ border = <<0, 0, 0, 0>>
    /\ new_img = [width |-> 0, height |-> 0]
    /\ album_art = [width |-> 0, height |-> 0]

(***************************************************************************)
(* An exception leaves main(): nothing in main() or extract_track()        *)
(* catches it, only the with blocks run their exits.                       *)
(***************************************************************************)
Raise(e) ==
    /\ pc' = "failed"
    /\ error' = e
    /\ tmpdirs' = IF call.state = "running"
                  THEN TmpCleanup(tmpdirs, args.mp3_filename, TRUE)
                  ELSE tmpdirs

(***************************************************************************)
(* main(): one run of the command.                                         *)
(***************************************************************************)
\* the command is invoked (again), with its options
StartRun ==
    /\ pc \in {"idle", "done", "failed"}
    /\ run < MaxRuns
    /\ \E j \in BOOLEAN, i \in BOOLEAN :
          /\ jingles' = j
          /\ install_dir' = i
    /\ run' = run + 1
    /\ pc' = "install_dir"
    /\ error' = ""
    /\ install_dir_p' = FALSE
    /\ album_art_data' = [s \in {} |-> None]
    /\ art_built' = FALSE
    /\ mkdirs' = {}
    /\ si' = 0
    /\ phase' = "tracks"
    /\ idx' = 0
    /\ args' = NoArgs
    /\ call' = NoCall
    /\ stats' = NoStats
    /\ tag_log' = <<>>
    /\ started' = <<>>
    /\ prev' = [done |-> pc = "done", jingles |-> jingles]
    /\ snapshot' = files
    /\ UNCHANGED <<pad_vars, art_vars>>
    /\ UNCHANGED <<archive_entries, files, dirs, tmpdirs, transcoded_ok>>

\* if not install_dir: install_dir_p = PathPlus(config[...])
ResolveInstallDir ==
    /\ pc = "install_dir"
    /\ install_dir_p' = ~install_dir
    /\ pc' = "archive_file"
    /\ UNCHANGED <<pad_vars, art_vars>>
    /\ UNCHANGED <<error, run, jingles, install_dir, album_art_data, art_built,
                   archive_entries, files, dirs, mkdirs, si, phase, idx, args, call,
                   tmpdirs, stats, tag_log, started, prev, snapshot, transcoded_ok>>

\* archive_file = install_dir_p / ...; assert archive_file.is_file();
\* output_dir_p.maybe_make()
ArchiveFile ==
    /\ pc = "archive_file"
    /\ \/ /\ ~install_dir_p
          /\ Raise("UnboundLocalError")
       \/ /\ install_dir_p
          /\ Raise("AssertionError")
       \/ /\ install_dir_p
          /\ pc' = "album_art"
          /\ UNCHANGED <<error, tmpdirs>>
    /\ UNCHANGED <<pad_vars, art_vars>>
    /\ UNCHANGED <<run, jingles, install_dir, install_dir_p, album_art_data, art_built,
                   archive_entries, files, dirs, mkdirs, si, phase, idx, args, call,
                   stats, tag_log, started, prev, snapshot, transcoded_ok>>

\* a failed album art build is swallowed: the run goes on without any art
AlbumArtFails_swallowed ==
    /\ pc' = "load_archive"
    /\ UNCHANGED <<error, tmpdirs, album_art_data, art_built>>

\* get_album_art fails: an archive or atlas cannot be read
AlbumArtFails == Raise("AlbumArtError") /\ UNCHANGED <<album_art_data, art_built>>

\* album_art_data = get_album_art(install_dir_p)
GetAlbumArt ==
    /\ pc = "album_art"
    /\ \/ /\ album_art_data' = [s \in _station_names |-> PngBytes(s)]
          /\ art_built' = TRUE
          /\ pc' = "load_archive"
          /\ UNCHANGED <<error, tmpdirs>>
       \/ AlbumArtFails
    /\ UNCHANGED <<pad_vars, art_vars>>
    /\ UNCHANGED <<run, jingles, install_dir, install_dir_p,
                   archive_entries, files, dirs, mkdirs, si, phase, idx, args, call,
                   stats, tag_log, started, prev, snapshot, transcoded_ok>>

\* archive = REDArchive.load_archive(archive_file); with open(archive_file) ...
LoadArchive ==
    /\ pc = "load_archive"
    /\ si' = 1
    /\ pc' = "station"
    /\ UNCHANGED <<pad_vars, art_vars>>
    /\ UNCHANGED <<error, run, jingles, install_dir, install_dir_p, album_art_data,
                   art_built, archive_entries, files, dirs, mkdirs, phase, idx, args,
                   call, tmpdirs, stats, tag_log, started, prev, snapshot, transcoded_ok>>

\* for station, station_data in radio_stations.items(): station_dir.maybe_make()
StationLoop ==
    /\ pc = "station"
    /\ IF si \in StationIdx
       THEN /\ dirs' = dirs \cup {radio_stations[si].name}
            /\ mkdirs' = mkdirs \cup {radio_stations[si].name}
            /\ phase' = "tracks"
            /\ idx' = 1
            /\ pc' = "track_loop"
       ELSE /\ pc' = "done"
            /\ UNCHANGED <<dirs, mkdirs, phase, idx>>
    /\ UNCHANGED <<pad_vars, art_vars>>
    /\ UNCHANGED <<error, run, jingles, install_dir, install_dir_p, album_art_data,
                   art_built, archive_entries, files, si, args, call, tmpdirs, stats,
                   tag_log, started, prev, snapshot, transcoded_ok>>

\* entering extract_track(track, station, mp3_filename, archive, fp, album_art)
CallExtractTrack(track, station, mp3_filename, art) ==
    /\ args' = [track |-> track, station |-> station, mp3_filename |-> mp3_filename,
                album_art |-> art]
    /\ call' = [NoCall EXCEPT !.state = "running"]
    /\ started' = Append(started, mp3_filename)
    /\ pc' = "et_is_file"

\* for track in station_data: extract_track(...)
TrackLoop ==
    /\ pc = "track_loop"
    /\ IF idx <= Len(StationTracks(si))
       THEN LET station == radio_stations[si].name
                track == StationTracks(si)[idx]
            IN CallExtractTrack(track, station, track_mp3_filename(station, track),
                                album_art_for(station))
       ELSE /\ pc' = "jingle_check"
            /\ UNCHANGED <<args, call, started>>
    /\ UNCHANGED <<pad_vars, art_vars>>
    /\ UNCHANGED <<error, run, jingles, install_dir, install_dir_p, album_art_data,
                   art_built, archive_entries, files, dirs, mkdirs, si, phase, idx,
                   tmpdirs, stats, tag_log, prev, snapshot, transcoded_ok>>

\* the station's jingles are processed whatever the --jingles flag says
jingles_wanted_any_flag(flag, station) == station \in DOMAIN radio_jingle_ids

\* jingles and station in radio_jingle_ids
jingles_wanted(flag, station) == flag /\ station \in DOMAIN radio_jingle_ids

\* if jingles and station in radio_jingle_ids:
JingleCheck ==
    /\ pc = "jingle_check"
    /\ IF jingles_wanted(jingles, radio_stations[si].name)
       THEN /\ phase' = "jingles"
            /\ idx' = 1
            /\ pc' = "jingle_loop"
            /\ si' = si
       ELSE /\ si' = si + 1
            /\ pc' = "station"
            /\ UNCHANGED <<phase, idx>>
    /\ UNCHANGED <<pad_vars, art_vars>>
    /\ UNCHANGED <<error, run, jingles, install_dir, install_dir_p, album_art_data,
                   art_built, archive_entries, files, dirs, mkdirs, args, call, tmpdirs,
                   stats, tag_log, started, prev, snapshot, transcoded_ok>>

\* for wem_name in radio_jingle_ids[station]: extract_track(...)
JingleLoop ==
    /\ pc = "jingle_loop"
    /\ IF idx <= Len(StationJingles(si))
       THEN LET station == radio_stations[si].name
                wem_name == StationJingles(si)[idx]
            IN /\ CallExtractTrack(jingle_track(station, wem_name), station,
                                   jingle_mp3_filename(station, wem_name),
                                   album_art_for(station))
               /\ si' = si
       ELSE /\ si' = si + 1
            /\ pc' = "station"
            /\ UNCHANGED <<args, call, started>>
    /\ UNCHANGED <<pad_vars, art_vars>>
    /\ UNCHANGED <<error, run, jingles, install_dir, install_dir_p, album_art_data,
                   art_built, archive_entries, files, dirs, mkdirs, phase, idx,
                   tmpdirs, stats, tag_log, prev, snapshot, transcoded_ok>>

(***************************************************************************)
(* extract_track(): one step per statement.                                *)
(***************************************************************************)
\* the extraction runs whether or not the destination exists
AfterIsFile_always_extract(exists) == "et_tmpdir"

\* where "if not mp3_filename.is_file():" continues
AfterIsFile(exists) == IF exists THEN "et_tag" ELSE "et_tmpdir"

\* if not mp3_filename.is_file():
ET_IsFile ==
    /\ pc = "et_is_file"
    /\ call' = [call EXCEPT !.existed = is_file(args.mp3_filename)]
    /\ pc' = AfterIsFile(is_file(args.mp3_filename))
    /\ UNCHANGED <<pad_vars, art_vars>>
    /\ UNCHANGED <<error, run, jingles, install_dir, install_dir_p, album_art_data,
                   art_built, archive_entries, files, dirs, mkdirs, si, phase, idx, args,
                   tmpdirs, stats, tag_log, started, prev, snapshot, transcoded_ok>>

\* with TemporaryPathPlus() as tmpdir: wem_filename = tmpdir.joinpath(...)
ET_TmpDir ==
    /\ pc = "et_tmpdir"
    /\ tmpdirs' = tmpdirs \cup {args.mp3_filename}
    /\ call' = [call EXCEPT !.tmps = @ + 1]
    /\ pc' = "et_find"
    /\ UNCHANGED <<pad_vars, art_vars>>
    /\ UNCHANGED <<error, run, jingles, install_dir, install_dir_p, album_art_data,
                   art_built, archive_entries, files, dirs, mkdirs, si, phase, idx, args,
                   stats, tag_log, started, prev, snapshot, transcoded_ok>>

\* a missing entry is skipped: the loop goes on with the next track
FindFails_skip ==
    /\ pc' = IF phase = "tracks" THEN "track_loop" ELSE "jingle_loop"
    /\ idx' = idx + 1
    /\ tmpdirs' = TmpCleanup(tmpdirs, args.mp3_filename, TRUE)
    /\ UNCHANGED <<error, args>>

\* find_filename finds no entry: the lookup raises
FindFails == Raise("NotFoundError") /\ UNCHANGED <<idx, args>>

\* file = archive.file_list.find_filename(fr"base\sound\soundbanks\media\{track.wem_name}.wem")
ET_Find ==
    /\ pc = "et_find"
    /\ call' = [call EXCEPT !.finds = @ + 1,
                            !.state = IF find_filename(args.track.wem_name)
                                      THEN "running" ELSE "raised"]
    /\ stats' = [stats EXCEPT !.finds = @ + 1]
    /\ IF find_filename(args.track.wem_name)
       THEN /\ pc' = "et_extract"
            /\ UNCHANGED <<error, tmpdirs, idx, args>>
       ELSE FindFails
    /\ UNCHANGED <<pad_vars, art_vars>>
    /\ UNCHANGED <<run, jingles, install_dir, install_dir_p, album_art_data,
                   art_built, archive_entries, files, dirs, mkdirs, si, phase,
                   tag_log, started, prev, snapshot, transcoded_ok>>

\* contents = archive.extract_file(fp, file)
ET_Extract ==
    /\ pc = "et_extract"
    /\ stats' = [stats EXCEPT !.extracts = @ + 1]
    /\ \/ /\ pc' = "et_write"
          /\ call' = [call EXCEPT !.extracts = @ + 1]
          /\ UNCHANGED <<error, tmpdirs>>
       \/ /\ Raise("ExtractError")
          /\ call' = [call EXCEPT !.extracts = @ + 1, !.state = "raised"]
    /\ UNCHANGED <<pad_vars, art_vars>>
    /\ UNCHANGED <<run, jingles, install_dir, install_dir_p, album_art_data,
                   art_built, archive_entries, files, dirs, mkdirs, si, phase, idx, args,
                   tag_log, started, prev, snapshot, transcoded_ok>>

\* wem_filename.write_bytes(contents)
ET_Write ==
    /\ pc = "et_write"
    /\ \/ /\ pc' = "et_transcode"
          /\ call' = [call EXCEPT !.writes = @ + 1]
          /\ UNCHANGED <<error, tmpdirs>>
       \/ /\ Raise("WriteError")
          /\ call' = [call EXCEPT !.writes = @ + 1, !.state = "raised"]
    /\ UNCHANGED <<pad_vars, art_vars>>
    /\ UNCHANGED <<run, jingles, install_dir, install_dir_p, album_art_data,
                   art_built, archive_entries, files, dirs, mkdirs, si, phase, idx, args,
                   stats, tag_log, started, prev, snapshot, transcoded_ok>>

\* transcode_file(wem_filename, mp3_filename) is called: the transcoder is
\* handed the destination itself and starts to write it, or fails before
ET_Transcode ==
    /\ pc = "et_transcode"
    /\ stats' = [stats EXCEPT !.transcodes = @ + 1]
    /\ \/ /\ files' = [files EXCEPT ![args.mp3_filename] =
                          [state |-> "partial", audio |-> run, tag |-> None]]
          /\ call' = [call EXCEPT !.transcodes = @ + 1]
          /\ pc' = "et_transcoding"
          /\ UNCHANGED <<error, tmpdirs>>
       \/ /\ Raise("TranscodeError")
          /\ call' = [call EXCEPT !.transcodes = @ + 1, !.state = "raised"]
          /\ UNCHANGED files
    /\ UNCHANGED <<pad_vars, art_vars>>
    /\ UNCHANGED <<run, jingles, install_dir, install_dir_p, album_art_data,
                   art_built, archive_entries, dirs, mkdirs, si, phase, idx, args,
                   tag_log, started, prev, snapshot, transcoded_ok>>

\* transcode_file returns, the destination complete, and the with block is
\* left; or it fails with the destination partly written
ET_Transcoding ==
    /\ pc = "et_transcoding"
    /\ \/ /\ files' = [files EXCEPT ![args.mp3_filename].state = "complete"]
          /\ transcoded_ok' = transcoded_ok \cup {args.mp3_filename}
          /\ tmpdirs' = TmpCleanup(tmpdirs, args.mp3_filename, FALSE)
          /\ pc' = "et_tag"
          /\ UNCHANGED <<error, call>>
       \/ /\ Raise("TranscodeError")
          /\ call' = [call EXCEPT !.state = "raised"]
          /\ UNCHANGED <<files, transcoded_ok>>
    /\ UNCHANGED <<pad_vars, art_vars>>
    /\ UNCHANGED <<run, jingles, install_dir, install_dir_p, album_art_data,
                   art_built, archive_entries, dirs, mkdirs, si, phase, idx, args,
                   stats, tag_log, started, prev, snapshot>>

\* track.set_id3_metadata(mp3_filename, station, album_art=album_art), then
\* the return to main's loop (progbar.update(), next item)
ET_Tag ==
    /\ pc = "et_tag"
    /\ tag_log' = Append(tag_log, [file |-> args.mp3_filename, station |-> args.station,
                                   album_art |-> args.album_art, track |-> args.track])
    /\ \/ /\ files' = [files EXCEPT ![args.mp3_filename].tag =
                                        <<args.station, args.album_art>>]
          /\ call' = [call EXCEPT !.tags = @ + 1, !.state = "returned"]
          /\ idx' = idx + 1
          /\ pc' = IF phase = "tracks" THEN "track_loop" ELSE "jingle_loop"
          /\ UNCHANGED <<error, tmpdirs>>
       \/ /\ Raise("TagError")
          /\ call' = [call EXCEPT !.tags = @ + 1, !.state = "raised"]
          /\ UNCHANGED <<files, idx>>
    /\ UNCHANGED <<pad_vars, art_vars>>
    /\ UNCHANGED <<run, jingles, install_dir, install_dir_p, album_art_data,
                   art_built, archive_entries, dirs, mkdirs, si, phase, args,
                   stats, started, prev, snapshot, transcoded_ok>>

\* the operator interrupts the run (KeyboardInterrupt), at any point of it
Running == {"install_dir", "archive_file", "album_art", "load_archive", "station",
            "track_loop", "jingle_check", "jingle_loop", "et_is_file", "et_tmpdir",
            "et_find", "et_extract", "et_write", "et_transcode", "et_transcoding",
            "et_tag"}

Abort ==
    /\ pc \in Running
    /\ Raise("KeyboardInterrupt")
    /\ call' = IF call.state = "running" THEN [call EXCEPT !.state = "interrupted"]
               ELSE call
    /\ UNCHANGED <<pad_vars, art_vars>>
    /\ UNCHANGED <<run, jingles, install_dir, install_dir_p, album_art_data,
                   art_built, archive_entries, files, dirs, mkdirs, si, phase, idx, args,
                   stats, tag_log, started, prev, snapshot, transcoded_ok>>

RunNext ==
    \/ StartRun
    \/ ResolveInstallDir
    \/ ArchiveFile
    \/ GetAlbumArt
    \/ LoadArchive
    \/ StationLoop
    \/ TrackLoop
    \/ JingleCheck
    \/ JingleLoop
    \/ ET_IsFile
    \/ ET_TmpDir
    \/ ET_Find
    \/ ET_Extract
    \/ ET_Write
    \/ ET_Transcode
    \/ ET_Transcoding
    \/ ET_Tag
    \/ Abort

Init == RunInit /\ PadIdle /\ ArtIdle

Spec == Init /\ [][RunNext]_vars

(***************************************************************************)
(* AlbumArtHelper.expand_to_output_size: the transparent border that       *)
(* brings an image to image_size.  \div and % are Python's // and % here:  *)
(* both round towards minus infinity, and x % 2 is 0 or 1 for every x.     *)
(***************************************************************************)
\* add_width = image_size[0] - width
add_width(width) == image_size[1] - width

\* add_height = image_size[1] - height
add_height(height) == image_size[2] - height

\* the odd pixel is not added on the left
add_left_no_extra(width) == add_width(width) \div 2

\* add_left = add_right = add_width // 2; if add_width % 2: add_left += 1
add_left(width) ==
    IF add_width(width) % 2 # 0 THEN add_width(width) \div 2 + 1
    ELSE add_width(width) \div 2

add_right(width) == add_width(width) \div 2

\* the odd pixel is left out at the top
add_top_no_extra(height) == add_height(height) \div 2

\* add_top = add_bottom = add_height // 2; if add_height % 2: add_top += 1
add_top(height) ==
    IF add_height(height) % 2 # 0 THEN add_height(height) \div 2 + 1
    ELSE add_height(height) \div 2

\* the odd pixel is added at the bottom as well as at the top
add_bottom_as_top(height) == add_top(height)

add_bottom(height) == add_height(height) \div 2

\* the (left, top, right, bottom) border handed to ImageOps.expand
expand_border(i) ==
    <<add_left(i.width), add_top(i.height), add_right(i.width), add_bottom(i.height)>>

\* ImageOps.expand(img, border): the size of the image it returns
expand_size(i, b) ==
    [width |-> b[1] + i.width + b[3], height |-> b[2] + i.height + b[4]]

\* new_img = ImageOps.expand(img, (add_left, add_top, add_right, add_bottom))
expand_to_output_size ==
    /\ pad_pc = "input"
    /\ border' = expand_border(img)
    /\ new_img' = expand_size(img, expand_border(img))
    /\ pad_pc' = "expanded"
    /\ logo' = logo_pixels(helper.logo_atlas.fill)
    /\ req' = [req EXCEPT !.pads = @ + 1]
    /\ UNCHANGED <<img, album_art, logo_atlas, helper, pixels, session_art>>
    /\ UNCHANGED run_vars

\* Image.composite(image1, image2, mask): image2 with image1 pasted through
\* the mask; the three sizes must agree
composite(image1, image2, mask) ==
    IF image1 = image2 /\ mask = image2 THEN image2 ELSE [width |-> -1, height |-> -1]

\* Image.new("RGBA", image_size, colour)
canvas == [width |-> image_size[1], height |-> image_size[2]]

\* album_art = Image.composite(self.foreground, self.background, logo), then
\* the album art base is stamped on it
album_art_for_logo ==
    /\ pad_pc = "expanded"
    /\ req.kind = "album_art"
    /\ album_art' = composite(canvas, composite(canvas, canvas, new_img), canvas)
    /\ pad_pc' = IF composite(canvas, canvas, new_img) = canvas
                 THEN "composed" ELSE "ValueError"
    /\ pixels' = composite_pixels(helper.album_art_base,
                               composite_pixels(helper.foreground, helper.background, logo),
                               helper.album_art_base_mask)
    /\ req' = [req EXCEPT !.composites = @ + 2]
    /\ UNCHANGED <<img, border, new_img, logo_atlas, helper, logo, session_art>>
    /\ UNCHANGED run_vars

(***************************************************************************)
(* One session of AlbumArt.get_album_art or AlbumArt.get_station_logos:    *)
(* the helper is built, then asked for one station after another.          *)
(***************************************************************************)
\* the text image the session hands to the helper: the text cropped from the
\* scanner atlas, or a transparent canvas for the bare logos
bottom_left_text_img(kind) == IF kind = "album_art" THEN {"frame_logo", "frame"} ELSE {}

\* album_art_helper = AlbumArtHelper(logo_atlas=img, bottom_left_text_img=...)
NewAlbumArtHelper ==
    /\ pad_pc = "new"
    /\ helper' = AlbumArtHelper(logo_atlas, bottom_left_text_img(req.kind), helper.base_builds)
    /\ pad_pc' = "ready"
    /\ UNCHANGED <<img, border, new_img, album_art, logo_atlas, req, logo, pixels, session_art>>
    /\ UNCHANGED run_vars

\* a helper built anew for the station, its base pair with it
album_art_helper_per_station(h) ==
    AlbumArtHelper(h.logo_atlas, h.album_art_base_mask, h.base_builds)

\* the helper the station loop asks: the one built before the loop
album_art_helper(h) == h

\* the stations a caller may name: those of the bounds table and one more
Requestable(h) == DOMAIN h.image_bounds \cup {"100.0 Catalog Only FM"}

\* album_art_helper.get_album_art(station) / .get_station_logo(station)
Request ==
    /\ pad_pc = "ready"
    /\ req.n < MaxRequests
    /\ \E station \in Requestable(helper) :
          req' = [NoReq EXCEPT !.n = req.n + 1, !.kind = req.kind, !.station = station]
    /\ helper' = album_art_helper(helper)
    /\ pad_pc' = "get_station_logo"
    /\ UNCHANGED <<img, border, new_img, album_art, logo_atlas, logo, pixels, session_art>>
    /\ UNCHANGED run_vars

\* the whole atlas stands in for a station the table lacks
bounds_of_whole_atlas(h, station) ==
    IF station \in DOMAIN h.image_bounds
    THEN h.image_bounds[station]
    ELSE <<0, 0, h.logo_atlas.width, h.logo_atlas.height>>

\* bounds = self.image_bounds[station]; None stands for the KeyError
bounds_of(h, station) ==
    IF station \in DOMAIN h.image_bounds THEN h.image_bounds[station] ELSE None

\* self.logo_atlas.crop(bounds): the size of the cropped image
crop(bounds) == [width |-> bounds[3] - bounds[1], height |-> bounds[4] - bounds[2]]

get_station_logo ==
    /\ pad_pc = "get_station_logo"
    /\ LET bounds == bounds_of(helper, req.station)
       IN IF bounds = None
          THEN /\ pad_pc' = "KeyError"
               /\ UNCHANGED <<img, req>>
          ELSE /\ img' = crop(bounds)
               /\ req' = [req EXCEPT !.crops = @ + 1]
               /\ pad_pc' = "input"
    /\ UNCHANGED <<border, new_img, album_art, logo_atlas, helper, logo, pixels, session_art>>
    /\ UNCHANGED run_vars

\* image.save(buffer, "png"); buffer.getvalue()
image_to_png_bytes(image) == <<"png", image>>

\* album_art_data[station] = image_to_png_bytes(...get_album_art(station)),
\* station_logos_data[station] = image_to_png_bytes(...get_station_logo(station))
StoreBytes ==
    /\ \/ pad_pc = "composed" /\ req.kind = "album_art"
       \/ pad_pc = "expanded" /\ req.kind = "logo"
    /\ req.n > 0
    /\ session_art' = [st \in DOMAIN session_art \cup {req.station} |->
                          IF st = req.station
                          THEN image_to_png_bytes(IF req.kind = "album_art" THEN pixels ELSE logo)
                          ELSE session_art[st]]
    /\ req' = [req EXCEPT !.pngs = @ + 1]
    /\ pad_pc' = "ready"
    /\ UNCHANGED <<img, border, new_img, album_art, logo_atlas, helper, logo, pixels>>
    /\ UNCHANGED run_vars

\* the images handed to expand_to_output_size: every size up to MaxSide
PadInit ==
    /\ archive_entries = AllWems
    /\ RunInit
    /\ img \in [width : 0..MaxSide, height : 0..MaxSide]
    /\ pad_pc = "input"
    /\ border = <<0, 0, 0, 0>>
    /\ new_img = [width |-> 0, height |-> 0]
    /\ album_art = [width |-> 0, height |-> 0]
    /\ logo_atlas = DefaultAtlas
    /\ helper = AlbumArtHelper(DefaultAtlas, bottom_left_text_img("album_art"), 0)
    /\ req = NoReq
    /\ logo = {}
    /\ pixels = solid("")
    /\ session_art = [st \in {} |-> None]

PadNext ==
    \/ expand_to_output_size
    \/ album_art_for_logo

SpecPad == PadInit /\ [][PadNext]_vars

(***************************************************************************)
(* Where a pixel (x, y) of the canvas lies.  The logo region follows from  *)
(* the padding; of the frame, the centre lines of the strokes are surely   *)
(* drawn, pixels within the stroke width of them and pixels of the text    *)
(* box may or may not be, every other pixel is not.                        *)
(***************************************************************************)
\* ImageOps.expand puts the source at (left, top) of the padded image
in_logo(x, y) ==
    /\ border[1] <= x /\ x < border[1] + img.width
    /\ border[2] <= y /\ y < border[2] + img.height

\* the points of the polyline and of the two further lines of
\* get_album_art_base
on_border_line(x, y) ==
    LET w == image_size[1]
        h == image_size[2]
    IN \/ x = 17 /\ 17 - 2 <= y /\ y <= h - 17 + 2
       \/ y = h - 17 /\ 17 <= x /\ x <= w - 17 - 20
       \/ x + y = (w - 17 - 20) + (h - 17) /\ w - 17 - 20 <= x /\ x <= w - 17
       \/ x = w - 17 /\ 17 <= y /\ y <= h - 17 - 20
       \/ y = 17 /\ 17 <= x /\ x <= w - 17
       \/ y = 15 /\ 17 <= x /\ x <= w - 17 + 1

\* within the stroke width (4) of a point of the lines
near_border_line(x, y) ==
    \E dx \in -4..4 : \E dy \in -4..4 : on_border_line(x + dx, y + dy)

\* get_bottom_left_text: the text sits offset_l = 20 from the left, offset_b =
\* 23 from the bottom, and is 364 - 305 pixels high
in_text_box(x, y) ==
    /\ 20 <= x
    /\ image_size[2] - 23 - (364 - 305) <= y
    /\ y < image_size[2] - 23

\* the zones the pixel may belong to
zones_at(x, y) ==
    LET frame == IF on_border_line(x, y) THEN {TRUE}
                 ELSE IF near_border_line(x, y) \/ in_text_box(x, y) THEN {TRUE, FALSE}
                 ELSE {FALSE}
    IN {IF f THEN (IF in_logo(x, y) THEN "frame_logo" ELSE "frame")
             ELSE (IF in_logo(x, y) THEN "logo" ELSE "rest") : f \in frame}

\* album_art.getpixel((x, y)): the colours the pixel may have
getpixel(x, y) == {pixels[z] : z \in zones_at(x, y)}

\* the atlases get_icons_atlas may return: two sizes, opaque or transparent
Atlases ==
    {[width |-> w, height |-> 1024, fill |-> f] : w \in {1024, 1600}, f \in {"opaque", "clear"}}

\* a session starts with the atlas read and no helper built
ArtInit ==
    /\ archive_entries = AllWems
    /\ RunInit
    /\ img = [width |-> 0, height |-> 0]
    /\ pad_pc = "new"
    /\ border = <<0, 0, 0, 0>>
    /\ new_img = [width |-> 0, height |-> 0]
    /\ album_art = [width |-> 0, height |-> 0]
    /\ logo_atlas \in Atlases
    /\ helper = NoHelper
    /\ req \in {[NoReq EXCEPT !.kind = k] : k \in {"album_art", "logo"}}
    /\ logo = {}
    /\ pixels = solid("")
    /\ session_art = [st \in {} |-> None]

ArtNext ==
    \/ NewAlbumArtHelper
    \/ Request
    \/ get_station_logo
    \/ expand_to_output_size
    \/ album_art_for_logo
    \/ StoreBytes

SpecArt == ArtInit /\ [][ArtNext]_vars

(***************************************************************************)
(* Properties of the orchestrator, checked under Spec.                     *)
(***************************************************************************)
\* number of set_id3_metadata calls of this run for destination d
TagCalls(d) == Cardinality({k \in 1..Len(tag_log) : tag_log[k].file = d})

InExtractTrack == pc \in {"et_is_file", "et_tmpdir", "et_find", "et_extract", "et_write",
                          "et_transcode", "et_transcoding", "et_tag"}

\* C1: a call of extract_track whose destination already exists makes no
\* archive lookup, no archive extract, no temp directory and no transcode,
\* and calls the tagger exactly once, for that destination.
C1_ExistingDestinationOnlyTagged ==
    call.existed =>
        /\ call.tmps = 0
        /\ call.finds = 0
        /\ call.extracts = 0
        /\ call.writes = 0
        /\ call.transcodes = 0
        /\ tmpdirs = {}
        /\ call.tags <= 1
        /\ call.state \in {"returned", "raised"} =>
              /\ call.tags = 1
              /\ tag_log[Len(tag_log)].file = args.mp3_filename
              /\ TagCalls(args.mp3_filename) = 1

C1_Witness ==
    /\ call.existed
    /\ call.state = "returned"
    /\ call.tags = 1
    /\ files[args.mp3_filename].audio < run

\* C2: a run that follows a completed run on the same output directory, and
\* enables no jingle the completed run did not, ends with no archive lookup,
\* extract or transcode made, every file's transcoded content as it was, and
\* the tagger called once per enabled destination.
C2_SecondRunIdempotent ==
    (pc = "done" /\ prev.done /\ (jingles => prev.jingles)) =>
        /\ stats = NoStats
        /\ \A d \in AllDests :
              /\ files[d].state = snapshot[d].state
              /\ files[d].audio = snapshot[d].audio
              /\ TagCalls(d) = IF d \in EnabledDests(jingles) THEN 1 ELSE 0

C2_Witness ==
    /\ pc = "done"
    /\ prev.done
    /\ jingles
    /\ prev.jingles
    /\ Len(tag_log) = Cardinality(AllDests)
    /\ \A d \in AllDests : files[d].state = "complete" /\ files[d].audio < run

\* C3 as the claim states it: a destination exists (outside the transcode
\* that is writing it) only if a transcode of it has completed, so a call
\* that skips the extraction skips a completely transcoded destination.
C3_DestinationOnlyAfterTranscode ==
    /\ \A d \in AllDests :
          (files[d].state # "absent" /\ ~(pc = "et_transcoding" /\ args.mp3_filename = d))
              => d \in transcoded_ok
    /\ call.existed => args.mp3_filename \in transcoded_ok

\* C4: at most one temp directory is live, only between its creation and
\* the end of the transcode of the track it was created for; none is live
\* when the tagger runs, when the next track starts or after any failure.
C4_TmpDirScoped ==
    /\ Cardinality(tmpdirs) <= 1
    /\ call.tmps <= 1
    /\ tmpdirs # {} =>
          /\ pc \in {"et_find", "et_extract", "et_write", "et_transcode", "et_transcoding"}
          /\ tmpdirs = {args.mp3_filename}
          /\ call.tmps = 1

C4_Witness ==
    /\ pc = "failed"
    /\ error = "TranscodeError"
    /\ call.tmps = 1
    /\ tmpdirs = {}

\* C5: an exception raised inside extract_track (missing archive entry,
\* extract, write, transcode or tag failure) ends the run at that track: no
\* step of the call ran twice, the failing track is the last one entered, and
\* the only step after a failure is a new invocation; after a missing entry
\* the destination does not exist and the tagger was not called for it.
C5_FailureAbortsRun ==
    /\ [](call.state = "raised" =>
            /\ pc = "failed"
            /\ error \in {"NotFoundError", "ExtractError", "WriteError",
                          "TranscodeError", "TagError"}
            /\ started[Len(started)] = args.mp3_filename
            /\ call.finds <= 1 /\ call.extracts <= 1 /\ call.transcodes <= 1
            /\ call.tags <= 1
            /\ \A d \in AllDests : TagCalls(d) <= 1
            /\ (call.finds = 1 /\ ~find_filename(args.track.wem_name)) =>
                  /\ error = "NotFoundError"
                  /\ files[args.mp3_filename].state = "absent"
                  /\ TagCalls(args.mp3_filename) = 0
                  /\ call.extracts = 0 /\ call.transcodes = 0)
    /\ [][pc = "failed" => (pc' = "install_dir" /\ run' = run + 1)]_vars

C5_Witness ==
    /\ pc = "failed"
    /\ error = "NotFoundError"
    /\ call.state = "raised"
    /\ Len(started) = 2
    /\ Len(tag_log) = 1
    /\ files[args.mp3_filename].state = "absent"

\* C6: every station directory, extract_track call and tagger call of a run
\* comes after get_album_art has returned the complete mapping, and a run
\* whose album art build fails ends with none of them made.
C6_AlbumArtFirst ==
    /\ (mkdirs # {} \/ started # <<>> \/ tag_log # <<>> \/ stats # NoStats
          \/ pc \in {"load_archive", "station", "track_loop", "jingle_check",
                     "jingle_loop", "done"}
          \/ InExtractTrack) =>
          /\ art_built
          /\ DOMAIN album_art_data = _station_names
    /\ (run > 0 /\ ~art_built) =>
          /\ pc \in {"install_dir", "archive_file", "album_art", "failed"}
          /\ mkdirs = {} /\ started = <<>> /\ tag_log = <<>> /\ stats = NoStats
          /\ files = snapshot
    /\ error = "AlbumArtError" => (pc = "failed" /\ ~art_built)

C6_Witness ==
    /\ pc = "failed"
    /\ error = "AlbumArtError"
    /\ run = 2
    /\ \E d \in AllDests : files[d].state = "complete"

\* C7: every tagger call of a run names a destination of the catalog, the
\* station that destination belongs to and the art the mapping holds for that
\* station, None when it holds none; the call just made is for the station
\* being iterated; a completed run has tagged every enabled destination once.
C7_TaggerArguments ==
    /\ \A k \in 1..Len(tag_log) :
          /\ tag_log[k].file \in EnabledDests(jingles)
          /\ tag_log[k].station = tag_log[k].file.dir
          /\ tag_log[k].track.station = tag_log[k].station
          /\ tag_log[k].album_art = Get(album_art_data, tag_log[k].station)
          /\ tag_log[k].station \notin _station_names => tag_log[k].album_art = None
          /\ tag_log[k].station \in _station_names =>
                tag_log[k].album_art = PngBytes(tag_log[k].station)
    /\ (call.tags = 1 /\ ((pc \in {"track_loop", "jingle_loop"} /\ idx > 1)
                            \/ error = "TagError")) =>
          /\ tag_log[Len(tag_log)].station = radio_stations[si].name
          /\ tag_log[Len(tag_log)].file = args.mp3_filename
    /\ pc = "done" => \A d \in EnabledDests(jingles) : TagCalls(d) = 1

C7_Witness ==
    /\ pc = "done"
    /\ \E k \in 1..Len(tag_log) :
          tag_log[k].station \notin DOMAIN album_art_data /\ tag_log[k].album_art = None
    /\ \E k \in 1..Len(tag_log) : tag_log[k].album_art # None

(***************************************************************************)
(* Properties of the padding geometry, checked under SpecPad.              *)
(***************************************************************************)
\* q is floor(a / 2), q is ceil(a / 2), stated without division
IsFloorHalf(q, a) == 2 * q <= a /\ a < 2 * q + 2

IsCeilHalf(q, a) == a <= 2 * q /\ 2 * q - 2 < a

IsOdd(a) == a % 2 = 1

\* expand_to_output_size has returned for an image no larger than the canvas
Padded == pad_pc # "input" /\ img.width <= image_size[1] /\ img.height <= image_size[2]

\* C8: for every image no larger than the canvas, an odd horizontal (vertical)
\* padding puts its extra pixel on the left (top): left = right + 1
\* (top = bottom + 1); an even padding is split equally.
C8_ExtraPixelLeading ==
    Padded =>
        /\ border[1] = border[3] + (IF IsOdd(image_size[1] - img.width) THEN 1 ELSE 0)
        /\ border[2] = border[4] + (IF IsOdd(image_size[2] - img.height) THEN 1 ELSE 0)

C8_Witness ==
    /\ Padded
    /\ IsOdd(image_size[1] - img.width)
    /\ ~IsOdd(image_size[2] - img.height)
    /\ border[1] = border[3] + 1
    /\ border[2] = border[4]

\* C9 as the claim states it: for a width (height) below the canvas, left (top)
\* is the floor and right (bottom) the ceiling of half the padding.
C9_ExtraPixelTrailing ==
    /\ (pad_pc # "input" /\ img.width < image_size[1]) =>
          /\ IsFloorHalf(border[1], image_size[1] - img.width)
          /\ IsCeilHalf(border[3], image_size[1] - img.width)
    /\ (pad_pc # "input" /\ img.height < image_size[2]) =>
          /\ IsFloorHalf(border[2], image_size[2] - img.height)
          /\ IsCeilHalf(border[4], image_size[2] - img.height)

\* C9 amended: for a width (height) below the canvas, left (top) is the
\* ceiling and right (bottom) the floor of half the padding: the extra pixel
\* of an odd padding is on the left/top.
C9_CeilLeadingFloorTrailing ==
    /\ (pad_pc # "input" /\ img.width < image_size[1]) =>
          /\ IsCeilHalf(border[1], image_size[1] - img.width)
          /\ IsFloorHalf(border[3], image_size[1] - img.width)
    /\ (pad_pc # "input" /\ img.height < image_size[2]) =>
          /\ IsCeilHalf(border[2], image_size[2] - img.height)
          /\ IsFloorHalf(border[4], image_size[2] - img.height)

C9_Witness ==
    /\ pad_pc # "input"
    /\ img.width < image_size[1]
    /\ img.height < image_size[2]
    /\ IsOdd(image_size[1] - img.width)
    /\ IsOdd(image_size[2] - img.height)
    /\ border[1] > border[3]
    /\ border[2] > border[4]

\* C10: for every image with 0 <= W <= 512 and 0 <= H <= 512 the four
\* paddings are non-negative, left + W + right = 512 and top + H + bottom =
\* 512, so the padded image and the album art composed from it have the
\* canvas size.
C10_PaddedToCanvas ==
    Padded =>
        /\ \A k \in 1..4 : border[k] >= 0
        /\ border[1] + img.width + border[3] = image_size[1]
        /\ border[2] + img.height + border[4] = image_size[2]
        /\ new_img = canvas
        /\ pad_pc # "ValueError"
        /\ pad_pc = "composed" => album_art = canvas

C10_Witness ==
    /\ pad_pc = "composed"
    /\ img.width = 345
    /\ img.height = 0
    /\ new_img = canvas
    /\ album_art = canvas

\* C11 as the claim states it: for an image wider or taller than the canvas
\* expand_to_output_size ends in an oversize error, with no image returned
\* and no negative padding computed.
C11_OversizeRejected ==
    (pad_pc # "input" /\ (img.width > image_size[1] \/ img.height > image_size[2])) =>
        /\ pad_pc = "OversizeError"
        /\ \A k \in 1..4 : border[k] >= 0
        /\ new_img = [width |-> 0, height |-> 0]

\* the request being served names a station the bounds table lacks
UnknownStation == req.n > 0 /\ req.station \notin DOMAIN helper.image_bounds

\* C12: a request for the logo or the album art of a station with no entry in
\* the bounds table ends in KeyError at the lookup: no crop, no padding, no
\* composite and no PNG encoding is done for it, no bytes are returned for
\* the station, and no file is written.
C12_UnknownStationFailsFirst ==
    UnknownStation =>
        /\ pad_pc \in {"get_station_logo", "KeyError"}
        /\ req.crops = 0
        /\ req.pads = 0
        /\ req.composites = 0
        /\ req.pngs = 0
        /\ req.station \notin DOMAIN session_art
        /\ files = [d \in AllDests |-> NoFile]
        /\ tmpdirs = {}

C12_Witness ==
    /\ UnknownStation
    /\ pad_pc = "KeyError"
    /\ req.n = 2
    /\ req.kind = "album_art"
    /\ DOMAIN session_art = {"96.1 Ritual FM"}

\* the album art of "96.1 Ritual FM" has been composed from the 1024 x 1024
\* opaque atlas with the default colours
RitualComposed ==
    /\ pad_pc = "composed"
    /\ req.kind = "album_art"
    /\ req.station = "96.1 Ritual FM"
    /\ logo_atlas = DefaultAtlas

\* C13 as the claim states it: pixel (256, 256) of that album art has the
\* background colour and lies outside the logo region.
C13_CentreIsBackground ==
    RitualComposed =>
        /\ getpixel(256, 256) = {background_colour}
        /\ ~in_logo(256, 256)

\* C13, amended: the 346 x 332 crop is padded by 83 left and right and 90
\* above and below, so pixel (256, 256) lies inside the logo region and has
\* the graphic colour #77ffff; the album art is 512 x 512, a pixel outside
\* the logo region and off the frame, such as (40, 256), has the background
\* colour #0e0204, and the border pixels (17, 17) .. (17, 400) are #913232.
C13_CentreIsGraphic ==
    RitualComposed =>
        /\ helper.image_bounds[req.station] = <<0, 0, 346, 332>>
        /\ border = <<83, 90, 83, 90>>
        /\ album_art = canvas
        /\ in_logo(256, 256)
        /\ getpixel(256, 256) = {graphic_colour}
        /\ ~in_logo(40, 256)
        /\ getpixel(40, 256) = {background_colour}
        /\ \A y \in 17..400 : getpixel(17, y) = {border_colour}

C13_Witness ==
    /\ RitualComposed
    /\ img = [width |-> 346, height |-> 332]
    /\ req.composites = 2
    /\ pixels["logo"] = graphic_colour
    /\ pixels["rest"] = background_colour

\* the destinations of station i in the order the claim gives: its catalog
\* tracks in catalog order, then, with jingles enabled and a jingle set for
\* the station, jingle_<assetName>.mp3 for each asset in jingle-set order
StationOrder(i, flag) ==
    LET name == radio_stations[i].name
        tracks == radio_stations[i].tracks
        assets == IF flag /\ name \in DOMAIN radio_jingle_ids
                  THEN radio_jingle_ids[name] ELSE <<>>
    IN [k \in 1..Len(tracks) |->
            [dir |-> name, prefix |-> "", stem |-> tracks[k].filename_stub,
             suffix |-> ".mp3"]]
       \o [k \in 1..Len(assets) |->
            [dir |-> name, prefix |-> "jingle_", stem |-> assets[k], suffix |-> ".mp3"]]

RECURSIVE CatalogOrder(_, _)
\* the stations from i on, in catalog order
CatalogOrder(i, flag) ==
    IF i > Len(radio_stations) THEN <<>>
    ELSE StationOrder(i, flag) \o CatalogOrder(i + 1, flag)

BasePair == <<helper.album_art_base, helper.album_art_base_mask>>

\* C15: once the helper of a session is built, get_album_art_base has been
\* called exactly once, and no later step of the session (the request for a
\* station, get_station_logo, expand_to_output_size, album_art_for_logo,
\* the PNG encoding) changes the album art base, its mask or that count; the
\* pair is the one computed from the session's text image and background,
\* and it is in place before any station is requested.
C15_BasePairOnce ==
    /\ [](pad_pc # "new" =>
            /\ helper.base_builds = 1
            /\ BasePair = get_album_art_base(bottom_left_text_img(req.kind),
                                             solid(background_colour)))
    /\ [](pad_pc = "new" => (req.n = 0 /\ helper.base_builds = 0))
    /\ [][pad_pc # "new" =>
            /\ BasePair' = BasePair
            /\ helper.base_builds' = helper.base_builds]_vars

C15_Witness ==
    /\ pad_pc = "composed"
    /\ req.n = 2
    /\ req.kind = "album_art"
    /\ helper.base_builds = 1
    /\ DOMAIN session_art = {"96.1 Ritual FM"}
    /\ req.station = "99.9 Impulse"
    /\ \A z \in helper.album_art_base_mask : pixels[z] = helper.album_art_base[z]

\* C16 as the claim states it: past the option handling of a run
\* install_dir_p is bound, whether --install-dir was supplied or omitted,
\* and no run fails on the unbound name.
C16_InstallDirDefined ==
    (run > 0 /\ pc # "install_dir") =>
        /\ install_dir_p
        /\ error # "UnboundLocalError"

====
